---- MODULE Spec2Model ----
(***************************************************************************)
(* PDF analysis cache of restaurant_revenue_prediction.                    *)
(*                                                                         *)
(*   PDFCacheManager   (pdf_cache_manager.py)  Hot Cache (_memory_cache)   *)
(*                     in front of the Durable Store (table pdf_analyses). *)
(*   PDFAnalyzer.analyze_pdf_with_cache (pdf_analyzer.py)  the request     *)
(*                     path: look up, else extract + analyse, then save.   *)
(*                                                                         *)
(* Time is counted in days.  analysis_date is an ISO-8601 string in the    *)
(* code; the strings are only compared with each other (min, ORDER BY,     *)
(* "<" in the DELETE) or parsed back to the instant they were formatted    *)
(* from, and both are order-preserving, so a date is modelled by its       *)
(* instant.                                                                *)
(***************************************************************************)
EXTENDS Integers, Sequences, FiniteSets, TLC

(***************************************************************************)
(* Bounds of the model.                                                    *)
(***************************************************************************)
\* number of analyze_pdf_with_cache requests in one behaviour of Spec
MaxRequests == 2
\* number of analyze_pdf_with_cache requests in one behaviour of SpecConc
MaxConcRequests == 3
\* number of analyze_pdf_with_cache requests in one behaviour of SpecPair
MaxPairRequests == 2
\* number of direct calls of the manager in one behaviour of SpecDirect
MaxCalls == 3
\* calls made in SpecRace
MaxRaceCalls == 4
\* last instant of the clock
MaxNow == 31
\* capacity of the Hot Cache: self._max_memory_cache, 50 in the source, scaled
\* down so that the capacity is reached
max_memory_cache == 2
\* number of records put beyond the capacity in SpecPut
Extra == 5

\* timedelta(days=30) of _is_analysis_valid
max_age == 30

Threads  == {"t1", "t2"}
FileIds  == {"d1", "d2"}
\* what is at file_path: one of two byte contents, or a file that cannot be read
Files    == {"a", "b", "unreadable"}
Payloads == {"p1", "p2"}
\* instants the clock can show: ages of 1, max_age and max_age + 1 days occur
Instants == {0, 1, MaxNow}
\* instants the clock can show in SpecDirect: an age of max_age - 1 days occurs
\* as well
FineInstants == {0, 1, max_age, MaxNow}
\* arguments of clear_old_analyses
DaysArgs == {1, max_age}
\* the limit arguments of get_recent_analyses: one row, and the default
Limits == {1, 10}
\* fingerprints of the records put in SpecPut
Pool == 1..(max_memory_cache + Extra)

NoRow == [status |-> "none"]
NoResult == [success |-> FALSE, from_cache |-> FALSE, cache_hit |-> FALSE,
             analysis |-> "unset", tokens_used |-> 0, error |-> "none"]
\* no get_analysis_stats call has returned
NoStats == [returned |-> "unset", total_analyses |-> 0, successful_analyses |-> 0,
            failed_analyses |-> 0, total_tokens_used |-> 0, memory_cache_size |-> 0]
\* no clear_old_analyses call has returned
NoSweep == [called |-> FALSE, days |-> 0, deleted_count |-> 0, returned |-> {}]

\* app.py line 188: the default limit (10 in the code) and the window (60 s in
\* the code, two clock units here); line 524: the limit of the upload key (5 in
\* the code)
default_limit == 3
upload_limit == 2
window == 2
\* last value of the clock of the rate limiter
MaxClock == 2
\* client addresses, and the keys of request_counts: the addresses (line 312)
\* and the fixed keys of the PDF endpoints (lines 523, 550)
Ips == {"ip1", "ip2"}
ClientKeys == Ips \cup {"pdf_upload", "pdf_analysis"}
\* no request was answered yet
NoResponse == [endpoint |-> "none", client |-> "none", status |-> 0,
               handler_ran |-> FALSE, in_window |-> 0]

VARIABLES
  now,            \* datetime.now()
  db_up,          \* sqlite3.connect(db_path) succeeds
  pdf_analyses,   \* the table: file_id (PRIMARY KEY) -> row or NoRow
  memory_cache,   \* _memory_cache: insertion-ordered dict, a sequence of records with distinct file_hash
  lock,           \* self.lock: "free" or the thread holding it
  pc,             \* position of each thread
  req,            \* arguments of the thread's request: file_id and what is at file_path
  analysis,       \* the thread's local record (cached_analysis / analysis / analysis_obj)
  result,         \* the dict the thread's request returned
  requests,       \* number of requests started
  invoked,        \* history: how far the miss path of the request got: none, extract, producer;
                  \* for a direct call of the manager, the method called
  store_error,    \* history: the request met an sqlite3 error
  at_start,       \* history: what the store and the cache held when the request started
  before,         \* history: the memory cache when the thread took the lock
  inserted,       \* history: the records put so far
  in_order,       \* history: every record was put with a date not below the dates put before
  stats,          \* what the last get_analysis_stats call returned
  sweep,          \* the last clear_old_analyses call: its argument, its deleted_count and
                  \* the value it returned, as a set that is empty for None
  recent,         \* what the last get_recent_analyses call returned: the list of rows
  request_counts, \* app.py line 186: per client key, the times of the recorded requests
  clock,          \* time.time(), in units of half a window
  response        \* the last HTTP response: endpoint, client key, status code, whether
                  \* the handler body after the rate check ran, and (history) how many
                  \* requests of the key were inside the window when it arrived

reqvars == <<req, result, invoked, store_error, at_start>>
putvars == <<lock, before, inserted, in_order>>
callvars == <<stats, sweep, recent>>
ratevars == <<request_counts, clock, response>>
vars == <<now, db_up, pdf_analyses, memory_cache, pc, analysis, requests, reqvars, putvars,
          callvars, ratevars>>

(***************************************************************************)
(* Pure helpers.                                                           *)
(***************************************************************************)
\* hashlib.sha256 over the bytes: one digest per content
sha256(content) == IF content = "a" THEN "ha" ELSE "hb"

\* _calculate_file_hash: the digest, or "" when the file cannot be read
calculate_file_hash(file) == IF file = "unreadable" THEN "" ELSE sha256(file)

\* is_analysis_valid with the limit a day too far
is_analysis_valid_wide(a, t) == t - a.analysis_date <= max_age + 1

\* _is_analysis_valid: age strictly below 30 days; the status is not looked at
is_analysis_valid(a, t) == t - a.analysis_date < max_age

\* IndexOf with the dict keyed by file_id instead of file_hash
IndexOf_by_file_id(cache, h) ==
  IF \E i \in 1..Len(cache) : cache[i].file_id = h
  THEN CHOOSE i \in 1..Len(cache) : cache[i].file_id = h
  ELSE 0

\* index of the entry of file_hash h in the dict, 0 when absent
IndexOf(cache, h) ==
  IF \E i \in 1..Len(cache) : cache[i].file_hash = h
  THEN CHOOSE i \in 1..Len(cache) : cache[i].file_hash = h
  ELSE 0

\* oldest_key with max in place of min
newest_key(cache) ==
  CHOOSE i \in 1..Len(cache) :
    \A j \in 1..Len(cache) :
      /\ cache[i].analysis_date >= cache[j].analysis_date
      /\ (cache[j].analysis_date = cache[i].analysis_date => i <= j)

\* min(keys, key=analysis_date): the first key, in iteration order, of minimal date
oldest_key(cache) ==
  CHOOSE i \in 1..Len(cache) :
    \A j \in 1..Len(cache) :
      /\ cache[i].analysis_date <= cache[j].analysis_date
      /\ (cache[j].analysis_date = cache[i].analysis_date => i <= j)

RemoveAt(s, i) == [j \in 1..(Len(s) - 1) |-> IF j < i THEN s[j] ELSE s[j + 1]]

\* evict_if_full with > in place of >= in the capacity check
evict_if_over(cache) ==
  IF Len(cache) > max_memory_cache
  THEN RemoveAt(cache, oldest_key(cache))
  ELSE cache

\* _add_to_memory_cache lines 144-148: when full, delete the oldest entry
evict_if_full(cache) ==
  IF Len(cache) >= max_memory_cache
  THEN RemoveAt(cache, oldest_key(cache))
  ELSE cache

\* _add_to_memory_cache line 150: self._memory_cache[analysis.file_hash] = analysis
assign(cache, a) ==
  LET i == IndexOf(cache, a.file_hash)
  IN  IF i = 0 THEN Append(cache, a) ELSE [cache EXCEPT ![i] = a]

\* _add_to_memory_cache as a whole, under self.lock
add_to_memory_cache(cache, a) == assign(evict_if_full(cache), a)

\* INSERT OR IGNORE in place of INSERT OR REPLACE: the first row of a file_id stays
insert_or_ignore(tbl, a) ==
  IF tbl[a.file_id] = NoRow THEN [tbl EXCEPT ![a.file_id] = a] ELSE tbl

\* insert_or_replace with file_hash as a second unique key: the rows of the
\* record's fingerprint are replaced as well
insert_or_replace_content(tbl, a) ==
  [d \in FileIds |->
     IF d = a.file_id THEN a
     ELSE IF tbl[d] # NoRow /\ tbl[d].file_hash = a.file_hash THEN NoRow
     ELSE tbl[d]]

\* INSERT OR REPLACE INTO pdf_analyses, file_id being the PRIMARY KEY
insert_or_replace(tbl, a) == [tbl EXCEPT ![a.file_id] = a]

\* older_than with <= in place of <
older_or_equal(a, t, days) == a.analysis_date <= t - days

\* WHERE analysis_date < cutoff, the cutoff being now - timedelta(days=days)
older_than(a, t, days) == a.analysis_date < t - days

\* SELECT ... WHERE file_hash = ? AND status = 'completed'
completed_rows(tbl, h) ==
  {d \in FileIds : tbl[d].status = "completed" /\ tbl[d].file_hash = h}

\* latest_completed with ORDER BY analysis_date ASC
oldest_completed(tbl, h) ==
  {d \in completed_rows(tbl, h) :
     \A e \in completed_rows(tbl, h) : tbl[d].analysis_date <= tbl[e].analysis_date}

\* ... ORDER BY analysis_date DESC LIMIT 1: the rows that can come first
latest_completed(tbl, h) ==
  {d \in completed_rows(tbl, h) :
     \A e \in completed_rows(tbl, h) : tbl[e].analysis_date <= tbl[d].analysis_date}

\* the dict returned by analyze_pdf_with_cache on a cache hit (lines 98-105)
hit_result(a) ==
  [success |-> TRUE, from_cache |-> TRUE, cache_hit |-> TRUE,
   analysis |-> a.analysis_data, tokens_used |-> a.tokens_used, error |-> "none"]

\* miss_result reporting success whatever the outcome
miss_result_success(a) ==
  [success |-> TRUE, from_cache |-> FALSE, cache_hit |-> FALSE,
   analysis |-> a.analysis_data, tokens_used |-> a.tokens_used, error |-> a.error_message]

\* the dict returned after a production attempt (lines 138-145, 162, 183-190)
miss_result(a) ==
  [success |-> a.status = "completed", from_cache |-> FALSE, cache_hit |-> FALSE,
   analysis |-> a.analysis_data, tokens_used |-> a.tokens_used, error |-> a.error_message]

\* the PDFAnalysis built at lines 122-131, 148-158 and 169-179
new_analysis(r, t, st, data, tok, err) ==
  [file_id |-> r.file_id, file_hash |-> calculate_file_hash(r.file), analysis_date |-> t,
   analysis_data |-> data, tokens_used |-> tok, status |-> st, error_message |-> err]

tokens_of(p) == IF p = "p1" THEN 10 ELSE 20

HashOf(t) == calculate_file_hash(req[t].file)

(***************************************************************************)
(* Initial state: a fresh process on an empty store.                       *)
(***************************************************************************)
NoReq == [file_id |-> "none", file |-> "none"]
NoStart == [after_failure |-> FALSE, no_completed |-> FALSE, cached |-> NoRow,
            row |-> NoRow, unique |-> FALSE]

Init ==
  /\ now = 0
  /\ db_up = TRUE
  /\ pdf_analyses = [d \in FileIds |-> NoRow]
  /\ memory_cache = <<>>
  /\ lock = "free"
  /\ pc = [t \in Threads |-> "idle"]
  /\ req = [t \in Threads |-> NoReq]
  /\ analysis = [t \in Threads |-> NoRow]
  /\ result = [t \in Threads |-> NoResult]
  /\ requests = 0
  /\ invoked = [t \in Threads |-> "none"]
  /\ store_error = [t \in Threads |-> FALSE]
  /\ at_start = [t \in Threads |-> NoStart]
  /\ before = [t \in Threads |-> <<>>]
  /\ inserted = {}
  /\ in_order = TRUE
  /\ stats = NoStats
  /\ sweep = NoSweep
  /\ recent = <<>>
  /\ request_counts = [c \in ClientKeys |-> <<>>]
  /\ clock = 0
  /\ response = NoResponse

(***************************************************************************)
(* What a request finds when it starts (history, read by the properties).  *)
(***************************************************************************)
CacheRecords == {memory_cache[i] : i \in 1..Len(memory_cache)}
StoreRows == {pdf_analyses[d] : d \in FileIds} \ {NoRow}

\* the Completed rows of fingerprint h in the table
CompletedOf(h) ==
  {a \in StoreRows : a.file_hash = h /\ a.status = "completed"}

Snapshot(h) ==
  [after_failure |-> \E a \in CacheRecords \cup StoreRows :
                        a.file_hash = h /\ a.status = "failed",
   no_completed  |-> ~ \E a \in CacheRecords \cup StoreRows :
                        a.file_hash = h /\ a.status = "completed",
   cached        |-> IF \E a \in CacheRecords : a.file_hash = h
                     THEN CHOOSE a \in CacheRecords : a.file_hash = h
                     ELSE NoRow,
   row           |-> IF CompletedOf(h) # {}
                     THEN CHOOSE a \in CompletedOf(h) :
                            \A b \in CompletedOf(h) : b.analysis_date <= a.analysis_date
                     ELSE NoRow,
   unique        |-> Cardinality(CompletedOf(h)) = 1]

(***************************************************************************)
(* analyze_pdf_with_cache, step by step.  _add_to_memory_cache runs under  *)
(* self.lock and nothing else takes the lock, so here it is one step.      *)
(***************************************************************************)
\* the request returns the dict r; a is the record it is about
Return(t, r, a) ==
  /\ pc' = [pc EXCEPT ![t] = "done"]
  /\ result' = [result EXCEPT ![t] = r]
  /\ analysis' = [analysis EXCEPT ![t] = a]

\* get_cached_analysis returned None: go on to the production step
Miss(t) ==
  /\ pc' = [pc EXCEPT ![t] = "produce"]
  /\ UNCHANGED <<analysis, result>>

\* entry of analyze_pdf_with_cache and lines 94-96 of get_cached_analysis.
\* The threads are interchangeable: t2 takes a request only while t1 is busy.
StartRequest(t, limit) ==
  /\ pc[t] = "idle"
  /\ t = "t1" \/ pc["t1"] # "idle"
  /\ requests < limit
  /\ \E d \in FileIds, f \in Files :
       /\ req' = [req EXCEPT ![t] = [file_id |-> d, file |-> f]]
       /\ at_start' = [at_start EXCEPT ![t] = Snapshot(calculate_file_hash(f))]
       /\ pc' = [pc EXCEPT ![t] = IF calculate_file_hash(f) = ""
                                  THEN "produce" ELSE "gca_member"]
  /\ requests' = requests + 1
  /\ UNCHANGED <<now, db_up, pdf_analyses, memory_cache, analysis, result,
                 invoked, store_error, putvars, callvars, ratevars>>

Start(t) == StartRequest(t, MaxRequests)

StartConc(t) == StartRequest(t, MaxConcRequests)

StartPair(t) == StartRequest(t, MaxPairRequests)

\* line 99: if file_hash in self._memory_cache
GcaMember(t) ==
  /\ pc[t] = "gca_member"
  /\ pc' = [pc EXCEPT ![t] = IF IndexOf(memory_cache, HashOf(t)) # 0
                             THEN "gca_read" ELSE "gca_db"]
  /\ UNCHANGED <<now, db_up, pdf_analyses, memory_cache, analysis, requests,
                 reqvars, putvars, callvars, ratevars>>

\* GcaRead with the database connection opened before the memory lookup: an
\* sqlite3 error makes the lookup return None
GcaRead_after_connect(t) ==
  /\ pc[t] = "gca_read"
  /\ LET i == IndexOf(memory_cache, HashOf(t))
     IN  IF i = 0 \/ ~db_up
         THEN Miss(t)
         ELSE IF is_analysis_valid(memory_cache[i], now)
              THEN Return(t, hit_result(memory_cache[i]), memory_cache[i])
              ELSE /\ pc' = [pc EXCEPT ![t] = "gca_db"]
                   /\ UNCHANGED <<analysis, result>>
  /\ UNCHANGED <<now, db_up, pdf_analyses, memory_cache, requests, req, invoked,
                 store_error, at_start, putvars, callvars, ratevars>>

\* lines 100-103: cached = self._memory_cache[file_hash]; a KeyError (the entry
\* was evicted since line 99) is caught at line 126 and None is returned
GcaRead(t) ==
  /\ pc[t] = "gca_read"
  /\ LET i == IndexOf(memory_cache, HashOf(t))
     IN  IF i = 0
         THEN Miss(t)
         ELSE IF is_analysis_valid(memory_cache[i], now)
              THEN Return(t, hit_result(memory_cache[i]), memory_cache[i])
              ELSE /\ pc' = [pc EXCEPT ![t] = "gca_db"]
                   /\ UNCHANGED <<analysis, result>>
  /\ UNCHANGED <<now, db_up, pdf_analyses, memory_cache, requests, req, invoked,
                 store_error, at_start, putvars, callvars, ratevars>>

\* GcaDb deleting the expired row it found
GcaDb_purging(t) ==
  /\ pc[t] = "gca_db"
  /\ store_error' = [store_error EXCEPT ![t] = @ \/ ~db_up]
  /\ IF ~db_up \/ latest_completed(pdf_analyses, HashOf(t)) = {}
     THEN Miss(t) /\ UNCHANGED pdf_analyses
     ELSE \E d \in latest_completed(pdf_analyses, HashOf(t)) :
            IF is_analysis_valid(pdf_analyses[d], now)
            THEN /\ pc' = [pc EXCEPT ![t] = "gca_add"]
                 /\ analysis' = [analysis EXCEPT ![t] = pdf_analyses[d]]
                 /\ UNCHANGED <<result, pdf_analyses>>
            ELSE Miss(t) /\ pdf_analyses' = [pdf_analyses EXCEPT ![d] = NoRow]
  /\ UNCHANGED <<now, db_up, memory_cache, requests, req, invoked,
                 at_start, putvars, callvars, ratevars>>

\* lines 106-117: the SELECT; an sqlite3 error is caught at line 126
GcaDb(t) ==
  /\ pc[t] = "gca_db"
  /\ store_error' = [store_error EXCEPT ![t] = @ \/ ~db_up]
  /\ IF ~db_up \/ latest_completed(pdf_analyses, HashOf(t)) = {}
     THEN Miss(t)
     ELSE \E d \in latest_completed(pdf_analyses, HashOf(t)) :
            IF is_analysis_valid(pdf_analyses[d], now)
            THEN /\ pc' = [pc EXCEPT ![t] = "gca_add"]
                 /\ analysis' = [analysis EXCEPT ![t] = pdf_analyses[d]]
                 /\ UNCHANGED result
            ELSE Miss(t)
  /\ UNCHANGED <<now, db_up, pdf_analyses, memory_cache, requests, req, invoked,
                 at_start, putvars, callvars, ratevars>>

\* GcaAdd without the call of _add_to_memory_cache
GcaAdd_no_populate(t) ==
  /\ pc[t] = "gca_add"
  /\ Return(t, hit_result(analysis[t]), analysis[t])
  /\ UNCHANGED <<now, db_up, pdf_analyses, memory_cache, requests, req, invoked,
                 store_error, at_start, putvars, callvars, ratevars>>

\* lines 119-121: self._add_to_memory_cache(analysis); return analysis
GcaAdd(t) ==
  /\ pc[t] = "gca_add"
  /\ memory_cache' = add_to_memory_cache(memory_cache, analysis[t])
  /\ Return(t, hit_result(analysis[t]), analysis[t])
  /\ UNCHANGED <<now, db_up, pdf_analyses, requests, req, invoked, store_error,
                 at_start, putvars, callvars, ratevars>>

\* lines 111-131, 148-158, 169-179: extract the text (an unreadable file yields
\* none), call analyze_pdf_content, build the record
Produce(t) ==
  /\ pc[t] = "produce"
  /\ \/ /\ invoked' = [invoked EXCEPT ![t] = "extract"]
        /\ analysis' = [analysis EXCEPT ![t] =
                          new_analysis(req[t], now, "failed", "empty", 0, "error")]
     \/ /\ req[t].file # "unreadable"
        /\ invoked' = [invoked EXCEPT ![t] = "producer"]
        /\ analysis' = [analysis EXCEPT ![t] =
                          new_analysis(req[t], now, "failed", "empty", 0, "error")]
     \/ /\ req[t].file # "unreadable"
        /\ invoked' = [invoked EXCEPT ![t] = "producer"]
        /\ \E p \in Payloads :
             analysis' = [analysis EXCEPT ![t] =
                            new_analysis(req[t], now, "completed", p, tokens_of(p), "none")]
  /\ pc' = [pc EXCEPT ![t] = "save_db"]
  /\ UNCHANGED <<now, db_up, pdf_analyses, memory_cache, requests, req, result,
                 store_error, at_start, putvars, callvars, ratevars>>

\* SaveDb going on to _add_to_memory_cache after an sqlite3 error
SaveDb_then_cache(t) ==
  /\ pc[t] = "save_db"
  /\ store_error' = [store_error EXCEPT ![t] = @ \/ ~db_up]
  /\ pdf_analyses' = IF db_up THEN insert_or_replace(pdf_analyses, analysis[t])
                     ELSE pdf_analyses
  /\ pc' = [pc EXCEPT ![t] = "save_mem"]
  /\ UNCHANGED <<analysis, result>>
  /\ UNCHANGED <<now, db_up, memory_cache, requests, req, invoked, at_start, putvars, callvars, ratevars>>

\* save_analysis lines 155-173: INSERT OR REPLACE; an sqlite3 error is caught at
\* line 180, so the memory cache is skipped and the caller goes on
SaveDb(t) ==
  /\ pc[t] = "save_db"
  /\ store_error' = [store_error EXCEPT ![t] = @ \/ ~db_up]
  /\ IF db_up
     THEN /\ pdf_analyses' = insert_or_replace(pdf_analyses, analysis[t])
          /\ pc' = [pc EXCEPT ![t] = "save_mem"]
          /\ UNCHANGED <<analysis, result>>
     ELSE /\ Return(t, miss_result(analysis[t]), analysis[t])
          /\ UNCHANGED pdf_analyses
  /\ UNCHANGED <<now, db_up, memory_cache, requests, req, invoked, at_start, putvars, callvars, ratevars>>

\* save_analysis line 176, then the return of analyze_pdf_with_cache
SaveMem(t) ==
  /\ pc[t] = "save_mem"
  /\ memory_cache' = add_to_memory_cache(memory_cache, analysis[t])
  /\ Return(t, miss_result(analysis[t]), analysis[t])
  /\ UNCHANGED <<now, db_up, pdf_analyses, requests, req, invoked, store_error,
                 at_start, putvars, callvars, ratevars>>

\* the caller has taken the dict: the thread is free for the next request
Done(t) ==
  /\ pc[t] = "done"
  /\ pc' = [pc EXCEPT ![t] = "idle"]
  /\ req' = [req EXCEPT ![t] = NoReq]
  /\ analysis' = [analysis EXCEPT ![t] = NoRow]
  /\ result' = [result EXCEPT ![t] = NoResult]
  /\ invoked' = [invoked EXCEPT ![t] = "none"]
  /\ store_error' = [store_error EXCEPT ![t] = FALSE]
  /\ at_start' = [at_start EXCEPT ![t] = NoStart]
  /\ stats' = NoStats
  /\ sweep' = NoSweep
  /\ recent' = <<>>
  /\ UNCHANGED <<now, db_up, pdf_analyses, memory_cache, requests, putvars, ratevars>>

(***************************************************************************)
(* The environment.                                                        *)
(***************************************************************************)
\* clear_old_analyses sweeping the memory cache as well
clear_old_analyses_and_cache(days) ==
  /\ db_up
  /\ pdf_analyses' = [d \in FileIds |->
        IF pdf_analyses[d] # NoRow /\ older_than(pdf_analyses[d], now, days)
        THEN NoRow ELSE pdf_analyses[d]]
  /\ memory_cache' = SelectSeq(memory_cache, LAMBDA c : ~ older_than(c, now, days))
  /\ UNCHANGED <<now, db_up, putvars, stats, recent, ratevars>>

\* clear_old_analyses(days), lines 245-251: DELETE ... WHERE analysis_date < cutoff
clear_old_analyses(days) ==
  /\ db_up
  /\ pdf_analyses' = [d \in FileIds |->
        IF pdf_analyses[d] # NoRow /\ older_than(pdf_analyses[d], now, days)
        THEN NoRow ELSE pdf_analyses[d]]
  /\ UNCHANGED <<now, db_up, memory_cache, putvars, stats, recent, ratevars>>

\* the sweep run from outside the request path
ClearOld ==
  /\ \E days \in DaysArgs : clear_old_analyses(days)
  /\ UNCHANGED <<pc, analysis, requests, reqvars, sweep>>

\* the clock advances to a later one of the given instants
TickTo(instants) ==
  /\ \E n \in instants : n > now /\ now' = n
  /\ UNCHANGED <<db_up, pdf_analyses, memory_cache, pc, analysis, requests,
                 reqvars, putvars, callvars, ratevars>>

Tick == TickTo(Instants)

TickFine == TickTo(FineInstants)

\* the database file becomes unavailable / available again
StoreToggle ==
  /\ db_up' = ~db_up
  /\ UNCHANGED <<now, pdf_analyses, memory_cache, pc, analysis, requests,
                 reqvars, putvars, callvars, ratevars>>

\* the process restarts: __init__ line 45 starts with an empty memory cache,
\* the requests in flight are gone, the table is kept
Restart ==
  /\ memory_cache # <<>> \/ \E t \in Threads : pc[t] # "idle"
  /\ memory_cache' = <<>>
  /\ pc' = [t \in Threads |-> "idle"]
  /\ req' = [t \in Threads |-> NoReq]
  /\ analysis' = [t \in Threads |-> NoRow]
  /\ result' = [t \in Threads |-> NoResult]
  /\ invoked' = [t \in Threads |-> "none"]
  /\ store_error' = [t \in Threads |-> FALSE]
  /\ at_start' = [t \in Threads |-> NoStart]
  /\ stats' = NoStats
  /\ sweep' = NoSweep
  /\ recent' = <<>>
  /\ UNCHANGED <<now, db_up, pdf_analyses, requests, putvars, ratevars>>

(***************************************************************************)
(* Spec: one request at a time, with the clock, the retention sweep, store *)
(* outages and restarts falling between any two steps of the request.      *)
(***************************************************************************)
Next ==
  \/ Start("t1")
  \/ GcaMember("t1")
  \/ GcaRead("t1")
  \/ GcaDb("t1")
  \/ GcaAdd("t1")
  \/ Produce("t1")
  \/ SaveDb("t1")
  \/ SaveMem("t1")
  \/ Done("t1")
  \/ ClearOld
  \/ Tick
  \/ StoreToggle
  \/ Restart

Spec == Init /\ [][Next]_vars

(***************************************************************************)
(* SpecConc: two request threads interleaved step by step, with store      *)
(* outages and restarts; the clock stands still.                           *)
(***************************************************************************)
NextConc ==
  \/ \E t \in Threads : StartConc(t)
  \/ \E t \in Threads : GcaMember(t)
  \/ \E t \in Threads : GcaRead(t)
  \/ \E t \in Threads : GcaDb(t)
  \/ \E t \in Threads : GcaAdd(t)
  \/ \E t \in Threads : Produce(t)
  \/ \E t \in Threads : SaveDb(t)
  \/ \E t \in Threads : SaveMem(t)
  \/ \E t \in Threads : Done(t)
  \/ StoreToggle
  \/ Restart

SpecConc == Init /\ [][NextConc]_vars

(***************************************************************************)
(* SpecPair: two requests, on two threads interleaved step by step or one  *)
(* after the other, with restarts; the store stays available and the clock *)
(* stands still.                                                           *)
(***************************************************************************)
NextPair ==
  \/ \E t \in Threads : StartPair(t)
  \/ \E t \in Threads : GcaMember(t)
  \/ \E t \in Threads : GcaRead(t)
  \/ \E t \in Threads : GcaDb(t)
  \/ \E t \in Threads : GcaAdd(t)
  \/ \E t \in Threads : Produce(t)
  \/ \E t \in Threads : SaveDb(t)
  \/ \E t \in Threads : SaveMem(t)
  \/ \E t \in Threads : Done(t)
  \/ Restart

SpecPair == Init /\ [][NextPair]_vars

(***************************************************************************)
(* SpecPut: the Hot Cache alone.  Two threads call _add_to_memory_cache    *)
(* with records of distinct fingerprints, in any order; the steps of the   *)
(* method are separate and self.lock orders them.  The record of           *)
(* fingerprint i is dated (i + 1) \div 2, so dates repeat.                 *)
(***************************************************************************)
PoolRecord(i) ==
  [file_id |-> i, file_hash |-> i, analysis_date |-> (i + 1) \div 2,
   analysis_data |-> "p1", tokens_used |-> 10, status |-> "completed",
   error_message |-> "none"]

\* lock_available without mutual exclusion
lock_ignored(l) == TRUE

\* with self.lock: the lock can be taken when no thread holds it
lock_available(l) == l = "free"

\* a caller enters _add_to_memory_cache with a record not put before.
\* The threads are interchangeable: t2 makes a call only while t1 is busy.
PutCall(t) ==
  /\ pc[t] = "idle"
  /\ t = "t1" \/ pc["t1"] # "idle"
  /\ \E i \in Pool :
       /\ PoolRecord(i) \notin inserted
       /\ \A u \in Threads : analysis[u] # PoolRecord(i)
       /\ analysis' = [analysis EXCEPT ![t] = PoolRecord(i)]
  /\ pc' = [pc EXCEPT ![t] = "put_lock"]
  /\ UNCHANGED <<now, db_up, pdf_analyses, memory_cache, requests, reqvars, putvars, callvars, ratevars>>

\* line 142: with self.lock
PutLock(t) ==
  /\ pc[t] = "put_lock"
  /\ lock_available(lock)
  /\ lock' = t
  /\ before' = [before EXCEPT ![t] = memory_cache]
  /\ pc' = [pc EXCEPT ![t] = "put_evict"]
  /\ UNCHANGED <<now, db_up, pdf_analyses, memory_cache, analysis, requests,
                 reqvars, inserted, in_order, callvars, ratevars>>

\* lines 144-148: the capacity check and the eviction
PutEvict(t) ==
  /\ pc[t] = "put_evict"
  /\ memory_cache' = evict_if_full(memory_cache)
  /\ pc' = [pc EXCEPT ![t] = "put_assign"]
  /\ UNCHANGED <<now, db_up, pdf_analyses, analysis, requests, reqvars, putvars, callvars, ratevars>>

\* line 150, the end of the with block and the return
PutAssign(t) ==
  /\ pc[t] = "put_assign"
  /\ memory_cache' = assign(memory_cache, analysis[t])
  /\ lock' = IF lock = t THEN "free" ELSE lock
  /\ inserted' = inserted \cup {analysis[t]}
  /\ in_order' = (in_order /\ \A r \in inserted : r.analysis_date <= analysis[t].analysis_date)
  /\ pc' = [pc EXCEPT ![t] = "idle"]
  /\ analysis' = [analysis EXCEPT ![t] = NoRow]
  /\ before' = [before EXCEPT ![t] = <<>>]
  /\ UNCHANGED <<now, db_up, pdf_analyses, requests, reqvars, callvars, ratevars>>

NextPut ==
  \/ \E t \in Threads : PutCall(t)
  \/ \E t \in Threads : PutLock(t)
  \/ \E t \in Threads : PutEvict(t)
  \/ \E t \in Threads : PutAssign(t)

SpecPut == Init /\ [][NextPut]_vars

(***************************************************************************)
(* SpecDirect: one caller uses the public methods of PDFCacheManager       *)
(* directly, as test_cache_system.py does: save_analysis with a record of  *)
(* its own making, get_cached_analysis, clear_old_analyses and             *)
(* get_analysis_stats, with the clock (on FineInstants) and restarts in     *)
(* between; the store stays available.                                     *)
(***************************************************************************)
\* SELECT SUM(tokens_used) over the rows of the file_ids in ids
RECURSIVE sum_tokens_used(_, _)
sum_tokens_used(tbl, ids) ==
  IF ids = {} THEN 0
  ELSE LET d == CHOOSE x \in ids : TRUE
       IN  (IF tbl[d] = NoRow THEN 0 ELSE tbl[d].tokens_used)
           + sum_tokens_used(tbl, ids \ {d})

\* get_analysis_stats with the WHERE clause of the failed count left out
get_analysis_stats_no_where(tbl, cache) ==
  [returned            |-> "dict",
   total_analyses      |-> Cardinality({d \in FileIds : tbl[d] # NoRow}),
   successful_analyses |-> Cardinality({d \in FileIds : tbl[d].status = "completed"}),
   failed_analyses     |-> Cardinality({d \in FileIds : tbl[d] # NoRow}),
   total_tokens_used   |-> sum_tokens_used(tbl, FileIds),
   memory_cache_size   |-> Len(cache)]

\* get_analysis_stats lines 200-229: the COUNT and SUM queries and the dict
get_analysis_stats(tbl, cache) ==
  [returned            |-> "dict",
   total_analyses      |-> Cardinality({d \in FileIds : tbl[d] # NoRow}),
   successful_analyses |-> Cardinality({d \in FileIds : tbl[d].status = "completed"}),
   failed_analyses     |-> Cardinality({d \in FileIds : tbl[d].status = "failed"}),
   total_tokens_used   |-> sum_tokens_used(tbl, FileIds),
   memory_cache_size   |-> Len(cache)]

\* a direct call starts: the caller is idle and fewer than limit calls were made
CallStartUpTo(t, method, limit) ==
  /\ pc[t] = "idle"
  /\ requests < limit
  /\ requests' = requests + 1
  /\ invoked' = [invoked EXCEPT ![t] = method]

CallStart(t, method) == CallStartUpTo(t, method, MaxCalls)

\* save_analysis(analysis) with a PDFAnalysis the caller built now: any file_id,
\* content and outcome
CallSaveUpTo(t, limit) ==
  /\ CallStartUpTo(t, "save_analysis", limit)
  /\ \E d \in FileIds, f \in Files \ {"unreadable"} :
       \/ \E p \in Payloads :
            analysis' = [analysis EXCEPT ![t] =
               new_analysis([file_id |-> d, file |-> f], now, "completed", p,
                            tokens_of(p), "none")]
       \/ analysis' = [analysis EXCEPT ![t] =
               new_analysis([file_id |-> d, file |-> f], now, "failed", "empty", 0, "error")]
  /\ pc' = [pc EXCEPT ![t] = "save_db"]
  /\ UNCHANGED <<now, db_up, pdf_analyses, memory_cache, req, result, store_error,
                 at_start, putvars, callvars, ratevars>>

CallSave(t) == CallSaveUpTo(t, MaxCalls)

\* get_cached_analysis(file_path), lines 94-96
CallGetUpTo(t, limit) ==
  /\ CallStartUpTo(t, "get_cached_analysis", limit)
  /\ \E f \in Files :
       /\ req' = [req EXCEPT ![t] = [file_id |-> "none", file |-> f]]
       /\ at_start' = [at_start EXCEPT ![t] = Snapshot(calculate_file_hash(f))]
       /\ pc' = [pc EXCEPT ![t] = IF calculate_file_hash(f) = ""
                                  THEN "produce" ELSE "gca_member"]
  /\ UNCHANGED <<now, db_up, pdf_analyses, memory_cache, analysis, result, store_error,
                 putvars, callvars, ratevars>>

CallGet(t) == CallGetUpTo(t, MaxCalls)

\* get_cached_analysis returned None to the direct caller (lines 96, 123, 128)
GetNone(t) ==
  /\ pc[t] = "produce"
  /\ Return(t, NoResult, NoRow)
  /\ UNCHANGED <<now, db_up, pdf_analyses, memory_cache, requests, req, invoked,
                 store_error, at_start, putvars, callvars, ratevars>>

\* clear_old_analyses(days) called directly: the method has no return statement,
\* deleted_count (cursor.rowcount) is only logged; an sqlite3 error is caught
CallClear(t) ==
  /\ CallStart(t, "clear_old_analyses")
  /\ \E days \in DaysArgs :
       IF db_up
       THEN /\ clear_old_analyses(days)
            /\ sweep' = [called |-> TRUE, days |-> days,
                         deleted_count |-> Cardinality({d \in FileIds :
                            pdf_analyses[d] # NoRow /\ pdf_analyses'[d] = NoRow}),
                         returned |-> {}]
       ELSE /\ sweep' = [called |-> TRUE, days |-> days, deleted_count |-> 0,
                         returned |-> {}]
            /\ UNCHANGED <<now, db_up, pdf_analyses, memory_cache, putvars, stats, recent, ratevars>>
  /\ Return(t, NoResult, NoRow)
  /\ UNCHANGED <<req, store_error, at_start>>

\* get_analysis_stats() called directly; an sqlite3 error is caught and {} returned
CallStats(t) ==
  /\ CallStart(t, "get_analysis_stats")
  /\ stats' = IF db_up
              THEN get_analysis_stats(pdf_analyses, memory_cache)
              ELSE [NoStats EXCEPT !.returned = "empty"]
  /\ Return(t, NoResult, NoRow)
  /\ UNCHANGED <<now, db_up, pdf_analyses, memory_cache, req, store_error, at_start,
                 putvars, sweep, recent, ratevars>>

\* the lists SELECT * ... ORDER BY analysis_date DESC LIMIT limit can return: the
\* rows newest first, rows of equal date in either order, cut at limit
recent_rows(tbl, limit) ==
  LET ids  == {d \in FileIds : tbl[d] # NoRow}
      n    == IF Cardinality(ids) < limit THEN Cardinality(ids) ELSE limit
      all  == {o \in [1..Cardinality(ids) -> ids] :
                 /\ \A i, j \in 1..Cardinality(ids) : i # j => o[i] # o[j]
                 /\ \A i, j \in 1..Cardinality(ids) :
                      i < j => tbl[o[i]].analysis_date >= tbl[o[j]].analysis_date}
  IN  {[i \in 1..n |-> tbl[o[i]]] : o \in all}

\* get_recent_analyses(limit) called directly; an sqlite3 error is caught and []
\* returned
CallRecent(t) ==
  /\ CallStart(t, "get_recent_analyses")
  /\ \E limit \in Limits :
       recent' \in (IF db_up THEN recent_rows(pdf_analyses, limit) ELSE {<<>>})
  /\ Return(t, NoResult, NoRow)
  /\ UNCHANGED <<now, db_up, pdf_analyses, memory_cache, req, store_error, at_start,
                 putvars, stats, sweep, ratevars>>

NextDirect ==
  \/ CallSave("t1")
  \/ CallGet("t1")
  \/ CallClear("t1")
  \/ CallStats("t1")
  \/ CallRecent("t1")
  \/ GcaMember("t1")
  \/ GcaRead("t1")
  \/ GcaDb("t1")
  \/ GcaAdd("t1")
  \/ GetNone("t1")
  \/ SaveDb("t1")
  \/ SaveMem("t1")
  \/ Done("t1")
  \/ TickFine
  \/ Restart

SpecDirect == Init /\ [][NextDirect]_vars

(***************************************************************************)
(* SpecRace: thread t1 calls get_cached_analysis while thread t2 calls     *)
(* save_analysis, interleaved step by step; the store stays available and  *)
(* the clock stands still.                                                 *)
(***************************************************************************)
NextRace ==
  \/ CallSaveUpTo("t2", MaxRaceCalls)
  \/ CallGetUpTo("t1", MaxRaceCalls)
  \/ GcaMember("t1")
  \/ GcaRead("t1")
  \/ GcaDb("t1")
  \/ GcaAdd("t1")
  \/ GetNone("t1")
  \/ SaveDb("t2")
  \/ SaveMem("t2")
  \/ \E t \in Threads : Done(t)

SpecRace == Init /\ [][NextRace]_vars

(***************************************************************************)
(* SpecRate: the rate limiter of app.py and the three endpoints that call  *)
(* it, one request at a time (the handlers do not await between the check  *)
(* and the append), with the clock of time.time().                         *)
(***************************************************************************)
cachevars == <<now, db_up, pdf_analyses, memory_cache, pc, analysis, requests, reqvars,
               putvars, callvars>>

\* line 193-194: the recorded times still inside the window
in_window(times, t, w) == SelectSeq(times, LAMBDA r : t - r < w)

\* check_rate_limit, lines 188-202: the list of the key is cleaned; at the limit
\* HTTPException(429) is raised inside the try block and caught by the except
\* Exception of line 200, which only logs; below the limit the time is appended.
\* The function has no return statement: it returns None on both paths and
\* never raises.
check_rate_limit(counts, client_ip, limit, w, t) ==
  LET kept == in_window(counts[client_ip], t, w)
  IN  [counts   |-> [counts EXCEPT ![client_ip] =
                       IF Len(kept) >= limit THEN kept ELSE Append(kept, t)],
       returned |-> "None",
       raised   |-> FALSE]

\* Python truth value of what check_rate_limit returned
Truthy(v) == v = "True"

\* the response is recorded with the number of requests of the key that were
\* inside the window when the request arrived
Respond(endpoint, key, status, ran) ==
  response' = [endpoint |-> endpoint, client |-> key, status |-> status,
               handler_ran |-> ran,
               in_window |-> Len(in_window(request_counts[key], clock, window))]

\* POST /api/analyze, lines 306-393: the value of check_rate_limit is not used;
\* an HTTPException would be re-raised at line 390; the body answers 200, or
\* 400 for data that fail validation
analyze_restaurant(ip, data) ==
  LET rl == check_rate_limit(request_counts, ip, default_limit, window, clock)
  IN  /\ request_counts' = rl.counts
      /\ IF rl.raised
         THEN Respond("/api/analyze", ip, 429, FALSE)
         ELSE Respond("/api/analyze", ip, IF data = "valid" THEN 200 ELSE 400, TRUE)
      /\ UNCHANGED <<clock, cachevars>>

\* POST /api/pdf/upload, lines 518-541: if not check_rate_limit(...): raise 429
upload_pdf(file) ==
  LET rl == check_rate_limit(request_counts, "pdf_upload", upload_limit, window, clock)
  IN  /\ request_counts' = rl.counts
      /\ IF rl.raised \/ ~ Truthy(rl.returned)
         THEN Respond("/api/pdf/upload", "pdf_upload", 429, FALSE)
         ELSE Respond("/api/pdf/upload", "pdf_upload",
                      IF file = "valid" THEN 200 ELSE 500, TRUE)
      /\ UNCHANGED <<clock, cachevars>>

\* POST /api/pdf/{file_id}/analyze, lines 545-605: if not check_rate_limit(...):
\* raise 429; the body answers 404 for an unknown file_id, 500 when
\* analyze_pdf_with_cache fails, 200 otherwise
analyze_pdf(file) ==
  LET rl == check_rate_limit(request_counts, "pdf_analysis", default_limit, window, clock)
  IN  /\ request_counts' = rl.counts
      /\ IF rl.raised \/ ~ Truthy(rl.returned)
         THEN Respond("/api/pdf/{file_id}/analyze", "pdf_analysis", 429, FALSE)
         ELSE Respond("/api/pdf/{file_id}/analyze", "pdf_analysis",
                      IF file = "valid" THEN 200
                      ELSE IF file = "missing" THEN 404 ELSE 500, TRUE)
      /\ UNCHANGED <<clock, cachevars>>

\* time.time() advances
ClockTick ==
  /\ clock < MaxClock
  /\ clock' = clock + 1
  /\ UNCHANGED <<request_counts, response, cachevars>>

NextRate ==
  \/ \E ip \in Ips, data \in {"valid", "invalid"} : analyze_restaurant(ip, data)
  \/ \E file \in {"valid", "invalid"} : upload_pdf(file)
  \/ \E file \in {"valid", "missing", "invalid"} : analyze_pdf(file)
  \/ ClockTick

SpecRate == Init /\ [][NextRate]_vars

(***************************************************************************)
(* Properties.                                                             *)
(***************************************************************************)
Finished(t) == pc[t] = "done"

\* C1: a request answered from the cache (from_cache=True, cache_hit=True) was
\* given a Completed record by get_cached_analysis, never a Failed one.
C1_HitIsCompleted ==
  \A t \in Threads :
    (Finished(t) /\ result[t].cache_hit) => analysis[t].status = "completed"

\* C2: a failed production writes nothing to the Hot Cache: the Hot Cache never
\* holds a Failed record.
C2_NoFailedInHotCache ==
  \A a \in CacheRecords : a.status # "failed"

\* C3: a request for bytes whose earlier production failed, with no Completed
\* record of these bytes in either layer when it starts, runs the production
\* step again; the only other outcome is a hit on a Completed record saved
\* since.
C3_RetryAfterFailure ==
  \A t \in Threads :
    (Finished(t) /\ at_start[t].after_failure /\ at_start[t].no_completed)
      => (invoked[t] # "none" \/ analysis[t].status = "completed")

\* C4: a request that starts when the table holds a Completed row for its
\* fingerprint, that meets no store error, and that ends with this row still
\* stored and younger than 30 days, is answered from the cache with a Completed
\* record and without the production step.
C4_CompletedIsReused ==
  \A t \in Threads :
    ( /\ Finished(t)
      /\ at_start[t].row # NoRow
      /\ pdf_analyses[at_start[t].row.file_id] = at_start[t].row
      /\ now - at_start[t].row.analysis_date < max_age
      /\ ~store_error[t] )
      => ( /\ result[t].from_cache
           /\ invoked[t] = "none"
           /\ analysis[t].status = "completed" )

\* C5: an unreadable document never reaches analyze_pdf_content and leaves no
\* record behind: no record of either layer carries the empty fingerprint.
C5_ReadErrorLeavesNoRecord ==
  /\ \A a \in CacheRecords \cup StoreRows : a.file_hash # ""
  /\ \A t \in Threads : req[t].file = "unreadable" => invoked[t] # "producer"

\* C6: a request that met an sqlite3 error does not go on as after a plain miss
\* and does not return success.
C6_StoreErrorSurfaces ==
  \A t \in Threads :
    store_error[t] => ( /\ pc[t] # "produce"
                        /\ (Finished(t) => ~result[t].success) )

\* C7: the Hot Cache never holds more than _max_memory_cache entries, whatever
\* the interleaving of the threads inside _add_to_memory_cache.
C7_HotCacheBound ==
  Len(memory_cache) <= max_memory_cache

\* one thread is inside the critical section of a full cache, the other waits
C7_Witness ==
  /\ Len(memory_cache) = max_memory_cache
  /\ \E t, u \in Threads : pc[t] = "put_evict" /\ pc[u] = "put_lock"

AllPut == inserted = {PoolRecord(i) : i \in Pool} /\ \A t \in Threads : pc[t] = "idle"

\* the cache holds max_memory_cache records and none of them is older than a
\* record that was put and is no longer held
HoldsLatest ==
  /\ Len(memory_cache) = max_memory_cache
  /\ \A c \in CacheRecords, r \in inserted \ CacheRecords :
       r.analysis_date <= c.analysis_date

\* C8 as stated: after max_memory_cache + 5 puts of distinct fingerprints, in
\* any order, the cache holds exactly the max_memory_cache latest records.
C8_AnyOrder == AllPut => HoldsLatest

\* C8 amended: the same, when every record is put with a date that is not
\* below the dates of the records put before it.
C8_InDateOrder == (AllPut /\ in_order) => HoldsLatest

C8_Witness == AllPut /\ in_order

\* C9: a put of a new fingerprint into a full cache removes exactly one entry,
\* one of smallest date among the entries held before the put, and adds the
\* new record.
C9_EvictsOldest ==
  [][\A t \in Threads :
       ( /\ pc[t] = "put_assign" /\ pc'[t] = "idle"
         /\ Len(before[t]) >= max_memory_cache
         /\ \A i \in 1..Len(before[t]) : before[t][i].file_hash # analysis[t].file_hash )
       => \E i \in 1..Len(before[t]) :
            /\ \A j \in 1..Len(before[t]) :
                 before[t][i].analysis_date <= before[t][j].analysis_date
            /\ {memory_cache'[k] : k \in 1..Len(memory_cache')}
                 = ({before[t][k] : k \in 1..Len(before[t])} \ {before[t][i]})
                     \cup {analysis[t]}
            /\ Len(memory_cache') = Len(before[t])]_vars

\* a put of a new fingerprint found the cache full, has evicted an entry and
\* is about to assign
C9_Witness ==
  \E t \in Threads :
    /\ pc[t] = "put_assign"
    /\ lock = t
    /\ Len(before[t]) = max_memory_cache
    /\ \A i \in 1..Len(before[t]) : before[t][i].file_hash # analysis[t].file_hash
    /\ Len(memory_cache) = max_memory_cache - 1

\* the record another upload of the same bytes left for the request: the Hot
\* Cache entry of the fingerprint, else the stored Completed row
SharedRecord(t) ==
  IF at_start[t].cached # NoRow THEN at_start[t].cached ELSE at_start[t].row

\* the request of t started after a different file_id with the same bytes had
\* been analysed successfully, and that record is still usable: younger than
\* 30 days, and, when only the table holds it, the only Completed row of the
\* fingerprint, still stored, and the table readable
SharedUsable(t) ==
  /\ SharedRecord(t) # NoRow
  /\ SharedRecord(t).status = "completed"
  /\ SharedRecord(t).file_id # req[t].file_id
  /\ is_analysis_valid(SharedRecord(t), now)
  /\ at_start[t].cached = NoRow =>
       ( /\ at_start[t].unique
         /\ ~store_error[t]
         /\ pdf_analyses[SharedRecord(t).file_id] = SharedRecord(t) )

\* C10: a request for a file_id whose bytes were analysed successfully under
\* another file_id returns that upload's Completed record as a cache hit and
\* does not run the production step.
C10_SharedByFingerprint ==
  \A t \in Threads :
    (Finished(t) /\ SharedUsable(t))
      => ( /\ result[t].from_cache
           /\ result[t].cache_hit
           /\ result[t].analysis = SharedRecord(t).analysis_data
           /\ analysis[t] = SharedRecord(t)
           /\ invoked[t] = "none" )

\* the other upload's record was served from the table after a restart
C10_Witness ==
  \E t \in Threads :
    Finished(t) /\ SharedUsable(t) /\ at_start[t].cached = NoRow /\ result[t].from_cache

(***************************************************************************)
(* Properties of the direct calls and of the request path, continued.      *)
(***************************************************************************)
\* the thread's SaveDb step committed the INSERT OR REPLACE
Committed(t) == pc[t] = "save_db" /\ pc'[t] = "save_mem"

\* C11: the table holds at most one row per file_id: a committed save_analysis
\* leaves under the record's file_id exactly the record just saved, whatever
\* was stored under it before, adds a row only when the file_id had none, and
\* leaves the rows of the other file_ids alone.
C11_OneRowPerFileId ==
  [][\A t \in Threads :
       Committed(t) =>
         /\ pdf_analyses'[analysis[t].file_id] = analysis[t]
         /\ \A d \in FileIds \ {analysis[t].file_id} : pdf_analyses'[d] = pdf_analyses[d]
         /\ Cardinality(StoreRows') =
              Cardinality(StoreRows)
                + (IF pdf_analyses[analysis[t].file_id] = NoRow THEN 1 ELSE 0)
         /\ \A a \in StoreRows' : pdf_analyses'[a.file_id] = a]_vars

\* a second save_analysis with a file_id saved before, with other field values,
\* has just been committed
C11_Witness ==
  /\ pc["t1"] = "save_mem"
  /\ invoked["t1"] = "save_analysis"
  /\ pdf_analyses[analysis["t1"].file_id] = analysis["t1"]
  /\ \E c \in CacheRecords :
       c.file_id = analysis["t1"].file_id /\ c # analysis["t1"]

\* the age of record a now
Age(a) == now - a.analysis_date

\* the entry of fingerprint h in the Hot Cache, NoRow when there is none
CachedFor(h) ==
  IF \E c \in CacheRecords : c.file_hash = h
  THEN CHOOSE c \in CacheRecords : c.file_hash = h
  ELSE NoRow

\* the thread takes a step of its lookup (and the process does not restart)
LookupStep(t, at) == pc[t] = at /\ pc'[t] # at /\ pc'[t] # "idle"

\* C12: around the freshness limit, in either layer: a record aged
\* max_age + 1 is never returned as a hit; a Completed record aged max_age - 1
\* that the lookup reads, from the Hot Cache or as the newest Completed row of
\* the fingerprint in the readable table, is returned as a hit.
C12_FreshnessBoundary ==
  [][\A t \in Threads :
       /\ (LookupStep(t, "gca_read") /\ pc'[t] = "done")
            => now - analysis'[t].analysis_date # max_age + 1
       /\ (LookupStep(t, "gca_db") /\ pc'[t] = "gca_add")
            => now - analysis'[t].analysis_date # max_age + 1
       /\ ( /\ LookupStep(t, "gca_read")
            /\ CachedFor(HashOf(t)).status = "completed"
            /\ Age(CachedFor(HashOf(t))) = max_age - 1 )
            => /\ pc'[t] = "done"
               /\ result'[t].cache_hit
               /\ analysis'[t] = CachedFor(HashOf(t))
       /\ ( /\ LookupStep(t, "gca_db")
            /\ db_up
            /\ \E a \in CompletedOf(HashOf(t)) :
                 /\ Age(a) = max_age - 1
                 /\ \A b \in CompletedOf(HashOf(t)) : b.analysis_date <= a.analysis_date )
            => /\ pc'[t] = "gca_add"
               /\ analysis'[t] \in CompletedOf(HashOf(t))
               /\ Age(analysis'[t]) = max_age - 1]_vars

\* a lookup was answered from the Hot Cache with the Completed record it
\* found there, aged max_age - 1
C12_Witness ==
  /\ Finished("t1")
  /\ result["t1"].cache_hit
  /\ analysis["t1"].status = "completed"
  /\ Age(analysis["t1"]) = max_age - 1
  /\ at_start["t1"].cached = analysis["t1"]

\* the thread's request is at the save after analyze_pdf_content failed
ProducerFailed(t) ==
  /\ invoked[t] = "producer"
  /\ analysis[t].status = "failed"

\* C13: when the producer fails, the save that reaches the table writes one
\* row and no other: status Failed, the file_id of the request, the error
\* detail; and the request returns success = False with that error.
C13_ProducerFailureRecorded ==
  [][\A t \in Threads :
       /\ (Committed(t) /\ ProducerFailed(t))
            => /\ pdf_analyses' = [pdf_analyses EXCEPT ![req[t].file_id] = analysis[t]]
               /\ pdf_analyses'[req[t].file_id].status = "failed"
               /\ pdf_analyses'[req[t].file_id].file_id = req[t].file_id
               /\ pdf_analyses'[req[t].file_id].error_message = "error"
       /\ (pc[t] \in {"save_db", "save_mem"} /\ pc'[t] = "done" /\ ProducerFailed(t))
            => /\ ~ result'[t].success
               /\ ~ result'[t].cache_hit
               /\ result'[t].error = "error"]_vars

\* a request whose producer failed has returned, its Failed row is in the table
C13_Witness ==
  /\ Finished("t1")
  /\ ProducerFailed("t1")
  /\ ~ store_error["t1"]
  /\ ~ result["t1"].success
  /\ pdf_analyses[req["t1"].file_id] = analysis["t1"]

\* the caller's step is a call of the given method of the manager
Calls(t, method) == pc[t] = "idle" /\ invoked'[t] = method

\* C14: clear_old_analyses(days) removes exactly the rows dated before
\* now - days and leaves every other row as it was.
C14_SweepRemovesExactlyOlder ==
  [][\A t \in Threads :
       Calls(t, "clear_old_analyses") =>
         \A d \in FileIds :
           pdf_analyses'[d] =
             IF /\ pdf_analyses[d] # NoRow
                /\ pdf_analyses[d].analysis_date < now - sweep'.days
             THEN NoRow
             ELSE pdf_analyses[d]]_vars

\* a sweep of max_age days has removed one row and left another, which is
\* exactly max_age days old
C14_Witness ==
  /\ Finished("t1")
  /\ invoked["t1"] = "clear_old_analyses"
  /\ sweep.days = max_age
  /\ sweep.deleted_count = 1
  /\ \E a \in StoreRows : Age(a) = max_age

\* C15: the retention sweep returns to its caller the number of rows it deleted.
C15_SweepReturnsCount ==
  \A t \in Threads :
    (Finished(t) /\ invoked[t] = "clear_old_analyses" /\ sweep.called)
      => sweep.returned = {sweep.deleted_count}

\* the sum of tokens_used over a set of rows
RECURSIVE TokensIn(_)
TokensIn(rows) ==
  IF rows = {} THEN 0
  ELSE LET a == CHOOSE x \in rows : TRUE
       IN  a.tokens_used + TokensIn(rows \ {a})

\* C16: get_analysis_stats reports the table as the saves and sweeps left it:
\* total = number of rows, successful = number of Completed rows, failed =
\* number of Failed rows, total_tokens_used = sum of tokens_used over the rows.
C16_StatsMatchTable ==
  \A t \in Threads :
    (Finished(t) /\ invoked[t] = "get_analysis_stats" /\ stats.returned = "dict")
      => /\ stats.total_analyses = Cardinality(StoreRows)
         /\ stats.successful_analyses =
              Cardinality({a \in StoreRows : a.status = "completed"})
         /\ stats.failed_analyses =
              Cardinality({a \in StoreRows : a.status = "failed"})
         /\ stats.total_tokens_used = TokensIn(StoreRows)

\* the stats were taken of a table with a Completed row carrying tokens and a
\* Failed row
C16_Witness ==
  /\ Finished("t1")
  /\ invoked["t1"] = "get_analysis_stats"
  /\ stats.returned = "dict"
  /\ stats.total_analyses = 2
  /\ stats.successful_analyses = 1
  /\ stats.failed_analyses = 1
  /\ stats.total_tokens_used = 20

\* when the call started, neither the table nor the Hot Cache held a record of
\* the fingerprint of the file
NothingStored(t) == at_start[t].no_completed /\ ~ at_start[t].after_failure

\* C17: get_cached_analysis returns None when no record held by the manager,
\* in the table or in the Hot Cache, has the fingerprint of the file; and a
\* record it takes from the table is a Completed row of that fingerprint with
\* the greatest analysis_date among them, which is the record it returns.
C17_LookupByFingerprint ==
  [][\A t \in Threads :
       invoked[t] = "get_cached_analysis" =>
         /\ (pc[t] # "done" /\ pc'[t] = "done" /\ NothingStored(t))
              => /\ analysis'[t] = NoRow
                 /\ result'[t] = NoResult
         /\ (LookupStep(t, "gca_db") /\ pc'[t] = "gca_add")
              => /\ analysis'[t] \in CompletedOf(HashOf(t))
                 /\ \A b \in CompletedOf(HashOf(t)) :
                      b.analysis_date <= analysis'[t].analysis_date
         /\ LookupStep(t, "gca_add")
              => /\ pc'[t] = "done"
                 /\ analysis'[t] = analysis[t]
                 /\ result'[t] = hit_result(analysis[t])]_vars

\* the lookup took from the table the newer of two Completed rows of the
\* fingerprint
C17_Witness ==
  /\ pc["t1"] = "gca_add"
  /\ invoked["t1"] = "get_cached_analysis"
  /\ analysis["t1"] \in CompletedOf(HashOf("t1"))
  /\ \E b \in CompletedOf(HashOf("t1")) :
       b.analysis_date < analysis["t1"].analysis_date

\* the lookup of thread t was for a fingerprint whose record was saved under
\* file_id d and then replaced in the table by a Completed record of another
\* fingerprint: the first record is still what the Hot Cache held at the start
ReplacedUnder(t, d) ==
  /\ at_start[t].cached.status = "completed"
  /\ at_start[t].cached.file_id = d
  /\ pdf_analyses[d].status = "completed"
  /\ pdf_analyses[d].file_hash # HashOf(t)
  /\ CompletedOf(HashOf(t)) = {}

\* the lookup of thread t was for the fingerprint of the record now stored
\* under file_id d, saved last and still fresh
CurrentUnder(t, d) ==
  /\ pdf_analyses[d].status = "completed"
  /\ pdf_analyses[d].file_hash = HashOf(t)
  /\ at_start[t].cached = pdf_analyses[d]
  /\ is_analysis_valid(pdf_analyses[d], now)

\* C18: after a Completed record of fingerprint f1 was saved under a file_id
\* and a Completed record of fingerprint f2 was then saved under the same
\* file_id, a lookup by f1 returns none and a lookup by f2 returns the second
\* record.
C18_ReplacedFingerprintGone ==
  \A t \in Threads :
    (Finished(t) /\ invoked[t] = "get_cached_analysis") =>
      \A d \in FileIds :
        /\ ReplacedUnder(t, d) => analysis[t] = NoRow
        /\ CurrentUnder(t, d) => analysis[t] = pdf_analyses[d]

\* both threads have finished a request for the same readable content, each
\* after a miss and a successful production that was saved
BothProduced(t, u) ==
  /\ t # u
  /\ Finished(t) /\ Finished(u)
  /\ HashOf(t) # "" /\ HashOf(t) = HashOf(u)
  /\ result[t].success /\ ~ result[t].from_cache /\ ~ store_error[t]
  /\ result[u].success /\ ~ result[u].from_cache /\ ~ store_error[u]

\* C19 as stated: after two concurrent requests for byte-identical content
\* that both missed and both produced successfully, the second save has
\* replaced the first and a single record of that content remains.
C19_SingleRecordRemains ==
  \A t, u \in Threads :
    BothProduced(t, u) =>
      /\ Cardinality({a \in StoreRows : a.file_hash = HashOf(t)}) = 1
      /\ Cardinality({c \in CacheRecords : c.file_hash = HashOf(t)}) = 1

\* the thread's request missed, produced successfully and is at or past its save
Produced(t) ==
  /\ invoked[t] = "producer"
  /\ analysis[t].status = "completed"
  /\ ~ store_error[t]

\* the thread's save has been committed and its row is in the table
SavedFirst(t) ==
  /\ Produced(t)
  /\ pc[t] \in {"save_mem", "done"}
  /\ pdf_analyses[req[t].file_id] = analysis[t]

\* C19 amended: both results are saved.  When the second save is committed
\* while the row of the first is in the table, it replaces that row if the two
\* requests carry the same file_id and leaves it in place, next to its own,
\* if they carry different file_ids; in the Hot Cache each put leaves the
\* record just put under the fingerprint.
C19_OneRowPerRequestId ==
  [][\A t, u \in Threads :
       /\ ( /\ t # u
            /\ Committed(u) /\ Produced(u)
            /\ SavedFirst(t)
            /\ HashOf(t) = HashOf(u) )
            => /\ pdf_analyses'[req[u].file_id] = analysis[u]
               /\ req[t].file_id = req[u].file_id
                    => CompletedOf(HashOf(u))' = {analysis[u]}
               /\ req[t].file_id # req[u].file_id
                    => /\ pdf_analyses'[req[t].file_id] = analysis[t]
                       /\ CompletedOf(HashOf(u))' = {analysis[t], analysis[u]}
                       /\ Cardinality(CompletedOf(HashOf(u))') = 2
       /\ (pc[u] = "save_mem" /\ pc'[u] = "done" /\ Produced(u))
            => CachedFor(HashOf(u))' = analysis[u]]_vars

\* two requests with different file_ids for the same content ran side by
\* side, both missed and both produced
C19_Witness ==
  /\ BothProduced("t1", "t2")
  /\ req["t1"].file_id # req["t2"].file_id
  /\ at_start["t1"].no_completed /\ at_start["t2"].no_completed
  /\ ~ at_start["t1"].after_failure /\ ~ at_start["t2"].after_failure
  /\ CompletedOf(HashOf("t1")) = {analysis["t1"], analysis["t2"]}

\* the store is unavailable and the Hot Cache holds a fresh Completed entry of
\* the fingerprint of the thread's request
ServableDuringOutage(t) ==
  /\ ~ db_up
  /\ CachedFor(HashOf(t)).status = "completed"
  /\ is_analysis_valid(CachedFor(HashOf(t)), now)

\* C20: while the store is unavailable, a request whose fingerprint has a
\* valid entry in the Hot Cache finds the entry and returns it as a cache hit,
\* without a store error.
C20_HotHitDuringOutage ==
  [][\A t \in Threads :
       /\ (LookupStep(t, "gca_member") /\ ServableDuringOutage(t))
            => pc'[t] = "gca_read"
       /\ (LookupStep(t, "gca_read") /\ ServableDuringOutage(t))
            => /\ pc'[t] = "done"
               /\ analysis'[t] = CachedFor(HashOf(t))
               /\ result'[t] = hit_result(CachedFor(HashOf(t)))
               /\ result'[t].success /\ result'[t].cache_hit
               /\ ~ store_error'[t]]_vars

\* a request that started during an outage has been served the entry of the
\* Hot Cache, and the store is still down
C20_Witness ==
  /\ Finished("t1")
  /\ ~ db_up
  /\ ~ store_error["t1"]
  /\ result["t1"].cache_hit
  /\ analysis["t1"].status = "completed"
  /\ at_start["t1"].cached = analysis["t1"]

\* C21: clear_old_analyses leaves the Hot Cache as it was: no entry of
\* _memory_cache is added, removed or modified by the sweep.
C21_SweepLeavesHotCache ==
  [][\A t \in Threads :
       Calls(t, "clear_old_analyses") => memory_cache' = memory_cache]_vars

\* a sweep has deleted the row of a record that the Hot Cache still holds
C21_Witness ==
  /\ Finished("t1")
  /\ invoked["t1"] = "clear_old_analyses"
  /\ sweep.deleted_count >= 1
  /\ \E c \in CacheRecords :
       /\ older_than(c, now, sweep.days)
       /\ pdf_analyses[c.file_id] = NoRow

\* record a is valid in the sense of the specification
ValidBySpec(a) == a.status = "completed" /\ Age(a) <= max_age

\* C22: the lookup treats a record as valid exactly when it is Completed and
\* its age is at most max_age: the Hot Cache entry it reads, and the newest
\* Completed row it reads from the readable table, is served as a hit when
\* valid in this sense (an age of exactly max_age included) and is not
\* served when not.
C22_ValidUpToMaxAge ==
  [][\A t \in Threads :
       /\ LookupStep(t, "gca_read") /\ CachedFor(HashOf(t)) # NoRow
            => ( ValidBySpec(CachedFor(HashOf(t)))
                   <=> /\ pc'[t] = "done"
                       /\ result'[t].cache_hit
                       /\ analysis'[t] = CachedFor(HashOf(t)) )
       /\ LookupStep(t, "gca_db") /\ db_up /\ CompletedOf(HashOf(t)) # {}
            => ( (\E a \in CompletedOf(HashOf(t)) :
                    /\ ValidBySpec(a)
                    /\ \A b \in CompletedOf(HashOf(t)) :
                         b.analysis_date <= a.analysis_date)
                   <=> pc'[t] = "gca_add" )]_vars

\* the thread's step is its call of _add_to_memory_cache with analysis[t]
Puts(t) == pc[t] \in {"save_mem", "gca_add"} /\ pc'[t] = "done"

\* C23: a put of a record whose fingerprint is already in the Hot Cache
\* overwrites that entry and evicts nothing, also at capacity: the entries of
\* the other fingerprints stay as they were and the size does not change.
C23_OverwriteEvictsNothing ==
  [][\A t \in Threads :
       (Puts(t) /\ CachedFor(analysis[t].file_hash) # NoRow)
         => /\ Len(memory_cache') = Len(memory_cache)
            /\ \A c \in CacheRecords :
                 c.file_hash # analysis[t].file_hash => c \in CacheRecords'
            /\ CachedFor(analysis[t].file_hash)' = analysis[t]]_vars

\* the row of record a was removed by a sweep: a is the last record saved
\* under its file_id (the Hot Cache holds no other one) and the table, from
\* which only clear_old_analyses deletes, has no row under that file_id
Swept(a) ==
  /\ pdf_analyses[a.file_id] = NoRow
  /\ \A c \in CacheRecords : c.file_id = a.file_id => c = a

\* C24: whatever the days argument, a record whose row clear_old_analyses
\* removed is not returned by a later get_cached_analysis.
C24_SweptNeverReturned ==
  \A t \in Threads :
    (Finished(t) /\ invoked[t] = "get_cached_analysis" /\ result[t].cache_hit)
      => ~ Swept(analysis[t])

\* record a is younger than 30 days, which is what the lookup accepts
Fresh(a) == Age(a) < max_age

C26_RowsLeaveOnlyBySweep ==
  [][/\ (\E d \in FileIds : pdf_analyses[d] # NoRow /\ pdf_analyses'[d] = NoRow)
         => \E t \in Threads : Calls(t, "clear_old_analyses")
     /\ Cardinality(StoreRows') < Cardinality(StoreRows)
         => \E t \in Threads : Calls(t, "clear_old_analyses")
     /\ \A t \in Threads :
       /\ Committed(t)
            => /\ pdf_analyses'[analysis[t].file_id] = analysis[t]
               /\ \A d \in FileIds \ {analysis[t].file_id} :
                    pdf_analyses'[d] = pdf_analyses[d]
       /\ (\/ invoked'[t] \in {"get_cached_analysis", "get_analysis_stats",
                                "get_recent_analyses"}
           \/ invoked[t] \in {"get_cached_analysis", "get_analysis_stats",
                               "get_recent_analyses"} /\ pc[t] # "done")
            => pdf_analyses' = pdf_analyses]_vars

\* a lookup met the expired row of its fingerprint and left it in the table,
\* next to the row of another document
C26_Witness ==
  /\ pc["t1"] = "produce"
  /\ invoked["t1"] = "get_cached_analysis"
  /\ \E a \in CompletedOf(HashOf("t1")) : ~ is_analysis_valid(a, now)
  /\ Cardinality(StoreRows) = 2

\* the newest Completed row of t's fingerprint is valid and is the one the table
\* held when t's lookup began
RowHeld(t) ==
  /\ at_start[t].row # NoRow
  /\ at_start[t].row \in StoreRows
  /\ is_analysis_valid(at_start[t].row, now)

\* C27: under every interleaving with save_analysis calls of another thread, a
\* get_cached_analysis for a fingerprint whose valid Completed row is in the
\* table from the start of the lookup on never returns None: no step of the
\* lookup ends it as a miss.
C27_LookupSurvivesEviction ==
  [][\A t \in Threads :
       (/\ invoked[t] = "get_cached_analysis"
        /\ pc[t] \in {"gca_member", "gca_read", "gca_db"}
        /\ RowHeld(t))
         => pc'[t] # "produce"]_vars

\* C28: when the store write inside save_analysis fails, save_analysis ends
\* without touching the Hot Cache; the step that puts the record into the Hot
\* Cache is entered only from the write step, with the store available and the
\* record's row in the table.
C28_FailedWriteSkipsHotCache ==
  [][\A t \in Threads :
       /\ (LookupStep(t, "save_db") /\ ~ db_up)
            => /\ memory_cache' = memory_cache
               /\ pdf_analyses' = pdf_analyses
               /\ pc'[t] = "done"
       /\ (pc'[t] = "save_mem" /\ pc[t] # "save_mem")
            => /\ pc[t] = "save_db"
               /\ db_up
               /\ pdf_analyses'[analysis[t].file_id] = analysis[t]
               /\ memory_cache' = memory_cache]_vars

\* a request produced a Completed record while the store was down: it ended
\* with neither a row nor a Hot Cache entry for the record
C28_Witness ==
  /\ Finished("t1")
  /\ ~ db_up
  /\ store_error["t1"]
  /\ ~ result["t1"].from_cache
  /\ analysis["t1"].status = "completed"
  /\ analysis["t1"] \notin CacheRecords
  /\ analysis["t1"] \notin StoreRows
  /\ memory_cache # <<>>

\* C29: a POST /api/pdf/{file_id}/analyze that arrives while fewer than the limit
\* of requests of the key 'pdf_analysis' are inside the window is not answered
\* 429 and its handler goes on to the file lookup and analyze_pdf_with_cache;
\* likewise POST /api/pdf/upload below the limit of the key 'pdf_upload'.
C29_PdfRequestBelowLimitAdmitted ==
  /\ (response.endpoint = "/api/pdf/{file_id}/analyze" /\ response.in_window < default_limit)
       => (response.status # 429 /\ response.handler_ran)
  /\ (response.endpoint = "/api/pdf/upload" /\ response.in_window < upload_limit)
       => (response.status # 429 /\ response.handler_ran)

\* C30: a POST /api/analyze of a client that already has limit requests inside
\* the window is answered 429 and its handler body does not run; one that
\* arrives below the limit is admitted and its time is recorded.
C30_AnalyzeBlockedAtLimit ==
  response.endpoint = "/api/analyze"
    => IF response.in_window >= default_limit
       THEN response.status = 429 /\ ~ response.handler_ran
       ELSE /\ response.status # 429
            /\ response.handler_ran
            /\ request_counts[response.client] # <<>>
====
